---- MODULE Spec2Model ----
(***************************************************************************)
(* Model of FMP_ETF25.py: a Streamlit script that fetches end-of-day       *)
(* prices per ticker (cached for 4 hours), builds a price-weighted         *)
(* composite of the user's tickers, overlays benchmarks and normalizes     *)
(* every series to a base of 100.                                          *)
(*                                                                         *)
(* Strings the code inspects character by character (the ticker text box)  *)
(* are sequences of one-character strings; a ticker is such a sequence.    *)
(* A float is an exact fraction [n, d]; NaN is the fraction 0/0.           *)
(* A pandas Series is a function from its index (a set of dates, kept in   *)
(* ascending order by sort_index) to floats.  A DataFrame is a record      *)
(* [index, cols] with cols a function from column name to a Series over    *)
(* index.                                                                  *)
(***************************************************************************)
EXTENDS Integers, Sequences, FiniteSets, TLC

VARIABLES
  pc,                              \* position of the script run
  FMP_API_KEY,                     \* the secret, "" when not configured
  raw_tickers_input,               \* text area content
  start_date_input,
  end_date_input,
  selected_benchmarks_for_overlay,
  clear_clicked,                   \* "Clear Price Data Cache & Rerun" pressed
  user_tickers_list,
  tickers_tuple_for_cache,
  cache,                           \* st.cache_data store of fetch_fmp_daily_prices
  i,                               \* loop index of fetch_fmp_daily_prices
  _all_stock_close_prices,
  _successful_tickers,
  _problematic_items,
  http_log,                        \* what the current invocation did on the network
  all_fetched_prices,
  successful_all_fetches,
  problematic_all_fetches,
  messages,                        \* what the page has displayed in this run
  custom_etf_df,
  valid_custom_tickers_for_pw,
  chart_data_main_etf,
  aligned_benchmark,
  normalized_df,
  computed,                        \* history: last computation of the fetcher per key
  keys_seen                        \* history: ticker set and benchmarks -> tuple used

vars == <<pc, FMP_API_KEY, raw_tickers_input, start_date_input, end_date_input,
          selected_benchmarks_for_overlay, clear_clicked, user_tickers_list,
          tickers_tuple_for_cache, cache, i, _all_stock_close_prices,
          _successful_tickers, _problematic_items, http_log, all_fetched_prices,
          successful_all_fetches, problematic_all_fetches, messages,
          custom_etf_df, valid_custom_tickers_for_pw, chart_data_main_etf,
          aligned_benchmark, normalized_df, computed, keys_seen>>

inputVars == <<raw_tickers_input, start_date_input, end_date_input,
               selected_benchmarks_for_overlay, clear_clicked>>
parseVars == <<user_tickers_list, tickers_tuple_for_cache>>
loopVars == <<i, _all_stock_close_prices, _successful_tickers,
              _problematic_items, http_log>>
fetchVars == <<all_fetched_prices, successful_all_fetches, problematic_all_fetches>>
viewVars == <<custom_etf_df, valid_custom_tickers_for_pw, chart_data_main_etf,
              aligned_benchmark, normalized_df>>

(***************************************************************************)
(* Bounds of the model.                                                    *)
(***************************************************************************)
MaxDate == 2
MaxRawLen == 3

Dates == 1..MaxDate

(***************************************************************************)
(* Sequences and sets.                                                     *)
(***************************************************************************)
Range(s) == {s[k] : k \in DOMAIN s}

SeqsUpTo(S, n) == UNION {[1..k -> S] : k \in 0..n}

\* Every order in which the elements of a set can be listed: list(set(...)).
Orderings(S) == {s \in [1..Cardinality(S) -> S] : Range(s) = S}

Min(S) == CHOOSE x \in S : \A y \in S : x <= y

(***************************************************************************)
(* Characters and strings.                                                 *)
(***************************************************************************)
Ord(c) ==
  CASE c = " " -> 32 [] c = "," -> 44 [] c = "A" -> 65 [] c = "B" -> 66
    [] c = "D" -> 68 [] c = "I" -> 73 [] c = "O" -> 79 [] c = "Q" -> 81
    [] c = "V" -> 86 [] c = "a" -> 97 [] c = "b" -> 98

\* str.upper
Upper(s) == [k \in DOMAIN s |-> CASE s[k] = "a" -> "A" [] s[k] = "b" -> "B" [] OTHER -> s[k]]

IsSpace(c) == c = " "

\* str.strip
RECURSIVE LStrip(_)
LStrip(s) == IF s # <<>> /\ IsSpace(Head(s)) THEN LStrip(Tail(s)) ELSE s

RECURSIVE RStrip(_)
RStrip(s) ==
  IF s # <<>> /\ IsSpace(s[Len(s)]) THEN RStrip(SubSeq(s, 1, Len(s) - 1)) ELSE s

Strip(s) == RStrip(LStrip(s))

\* str.split(','): the pieces between the commas, empty pieces included.
RECURSIVE SplitFrom(_, _, _)
SplitFrom(s, k, cur) ==
  IF k > Len(s) THEN <<cur>>
  ELSE IF s[k] = "," THEN <<cur>> \o SplitFrom(s, k + 1, <<>>)
  ELSE SplitFrom(s, k + 1, Append(cur, s[k]))

Split(s) == SplitFrom(s, 1, <<>>)

\* Python's order on str: by code point, a proper prefix first.
RECURSIVE StrLess(_, _)
StrLess(a, b) ==
  IF a = <<>> THEN b # <<>>
  ELSE IF b = <<>> THEN FALSE
  ELSE IF Ord(Head(a)) # Ord(Head(b)) THEN Ord(Head(a)) < Ord(Head(b))
  ELSE StrLess(Tail(a), Tail(b))

\* sorted(list): insertion into an ascending list, element by element.
RECURSIVE InsertSorted(_, _)
InsertSorted(x, s) ==
  IF s = <<>> THEN <<x>>
  ELSE IF StrLess(Head(s), x) THEN <<Head(s)>> \o InsertSorted(x, Tail(s))
  ELSE <<x>> \o s

Unsorted(s) == s

RECURSIVE Sorted(_)
Sorted(s) == IF s = <<>> THEN <<>> ELSE InsertSorted(Head(s), Sorted(Tail(s)))

(***************************************************************************)
(* Floats, Series and DataFrames.                                          *)
(***************************************************************************)
NaN == [n |-> 0, d |-> 0]
IsNaN(x) == x.d = 0
Num(v) == [n |-> v, d |-> 1]
IsZero(x) == x.d # 0 /\ x.n = 0

\* x == y as floats: NaN equals nothing.
FEq(x, y) == ~IsNaN(x) /\ ~IsNaN(y) /\ x.n * y.d = y.n * x.d

FAdd(x, y) == [n |-> x.n * y.d + y.n * x.d, d |-> x.d * y.d]

\* x / k for an integer k >= 1.
FDivInt(x, k) == IF IsNaN(x) THEN NaN ELSE [n |-> x.n, d |-> x.d * k]

\* (x / b) * 100 for a non-missing positive b.
FRebase(x, b) == IF IsNaN(x) THEN NaN ELSE [n |-> x.n * b.d * 100, d |-> x.d * b.n]

EmptySeries == [d \in {} |-> NaN]
IsEmptySeries(s) == DOMAIN s = {}
AllNull(s) == \A d \in DOMAIN s : IsNaN(s[d])

EmptyFrame == [index |-> {}, cols |-> [c \in {} |-> EmptySeries]]

\* pd.DataFrame(dict of Series): outer join on the union of the indexes.
DataFrameOf(prices) ==
  LET idx == UNION {DOMAIN prices[t] : t \in DOMAIN prices}
  IN  [index |-> idx,
       cols |-> [t \in DOMAIN prices |->
                   [d \in idx |-> IF d \in DOMAIN prices[t] THEN prices[t][d] ELSE NaN]]]

DropNaAllRowsKeep(df) == df

\* df.dropna(how='all'): drop the rows in which every column is missing.
DropNaAllRows(df) ==
  LET keep == {d \in df.index : \E c \in DOMAIN df.cols : ~IsNaN(df.cols[c][d])}
  IN  [index |-> keep, cols |-> [c \in DOMAIN df.cols |-> [d \in keep |-> df.cols[c][d]]]]

\* df[cols].sum(axis=1) at one row: missing values are skipped, no value gives 0.
RECURSIVE RowSum(_, _, _)
RowSum(df, cols, d) ==
  IF cols = <<>> THEN Num(0)
  ELSE LET x == df.cols[Head(cols)][d]
           rest == RowSum(df, Tail(cols), d)
       IN  IF IsNaN(x) THEN rest ELSE FAdd(x, rest)

\* The elements of list s that satisfy membership in S, in s's order.
RECURSIVE Filter(_, _)
Filter(s, S) ==
  IF s = <<>> THEN <<>>
  ELSE IF Head(s) \in S THEN <<Head(s)>> \o Filter(Tail(s), S)
  ELSE Filter(Tail(s), S)

PortfolioSum == <<"Portfolio Sum">>
MyCustomETF == <<"My Custom ETF">>

PriceWeightedPerRow(df, valid) ==
  [d \in df.index |->
     FDivInt(RowSum(df, valid, d),
             Cardinality({t \in Range(valid) : ~IsNaN(df.cols[t][d])}))]

\* 'Portfolio Sum' / len(valid_custom_tickers_for_pw)
PriceWeighted(df, valid) ==
  [d \in df.index |-> FDivInt(RowSum(df, valid, d), Len(valid))]

WithColumn(df, name, s) ==
  [index |-> df.index,
   cols |-> [c \in DOMAIN df.cols \cup {name} |-> IF c = name THEN s ELSE df.cols[c]]]

AlignOuter(s, other) ==
  [d \in DOMAIN s \cup DOMAIN other |-> IF d \in DOMAIN s THEN s[d] ELSE NaN]

\* Series.align(other, join='right')[0]: s on other's index.
AlignRight(s, other) ==
  [d \in DOMAIN other |-> IF d \in DOMAIN s THEN s[d] ELSE NaN]

\* frame[name] = series: the series is reindexed to the frame's index; a frame
\* with no column yet takes the series' index.
Assign(df, name, s) ==
  IF DOMAIN df.cols = {}
  THEN [index |-> DOMAIN s, cols |-> [c \in {name} |-> s]]
  ELSE WithColumn(df, name, [d \in df.index |-> IF d \in DOMAIN s THEN s[d] ELSE NaN])

\* Series.bfill(): every missing value takes the next valid one.
Bfill(s) ==
  [d \in DOMAIN s |->
     LET later == {e \in DOMAIN s : e >= d /\ ~IsNaN(s[e])}
     IN  IF later = {} THEN NaN ELSE s[Min(later)]]

\* Series.iloc[0]
First(s) == s[Min(DOMAIN s)]

\* The base taken from the literal first row.
NormalizeLiteralFirst(s) ==
  IF ~IsEmptySeries(s) /\ ~AllNull(s)
  THEN LET first_valid_value == First(s)
       IN  IF ~IsNaN(first_valid_value) /\ ~IsZero(first_valid_value)
           THEN [d \in DOMAIN s |-> FRebase(s[d], first_valid_value)]
           ELSE [d \in DOMAIN s |-> NaN]
  ELSE [d \in DOMAIN s |-> NaN]

\* The body of the normalization loop for one column.
NormalizeColumn(s) ==
  LET bfilled_series == Bfill(s)
  IN  IF ~IsEmptySeries(bfilled_series) /\ ~AllNull(bfilled_series)
      THEN LET first_valid_value == First(bfilled_series)
           IN  IF ~IsNaN(first_valid_value) /\ ~IsZero(first_valid_value)
               THEN [d \in DOMAIN s |-> FRebase(s[d], first_valid_value)]
               ELSE [d \in DOMAIN s |-> NaN]
      ELSE [d \in DOMAIN s |-> NaN]

(***************************************************************************)
(* Tickers and messages.                                                   *)
(***************************************************************************)
AAA == <<"A", "A", "A">>
BBB == <<"B", "B", "B">>
VOO == <<"V", "O", "O">>
DIA == <<"D", "I", "A">>
QQQ == <<"Q", "Q", "Q">>

BENCHMARK_ETFS == {VOO, DIA, QQQ}

\* f"{bench_ticker} ({BENCHMARK_ETFS[bench_ticker]})"
BenchColumn(b) == b \o <<" (">> \o b \o <<")">>

Stop(id) == [kind |-> "stop", id |-> id]
Warning(id) == [kind |-> "warning", id |-> id]
Issue(t, reason) == [kind |-> "issue", ticker |-> t, reason |-> reason]

(***************************************************************************)
(* Lines 50-92: fetch_fmp_daily_prices, one step per network event.        *)
(***************************************************************************)
\* What requests.get, raise_for_status and response.json() can come to.  A body
\* says whether it has a usable "historical" list ("absent", "empty" or
\* "records"), whether it has an "Error Message" field, and for its records
\* whether they have a date field, a close field, closes that convert to
\* float, and the series they hold.
NetworkError == [status |-> "network_error"]
HttpError == [status |-> "http_error"]
Unparsable == [status |-> "ok", json |-> "invalid"]
Body(h, em, dc, cc, cast, s) ==
  [status |-> "ok", json |-> "object", historical |-> h, error_message |-> em,
   date_col |-> dc, close_col |-> cc, castable |-> cast, series |-> s]

Problem(reason) == [ok |-> FALSE, reason |-> reason]
Success(s) == [ok |-> TRUE, series |-> s]

\* Lines 67-90: the try block and its handlers for one ticker.
Outcome(r) ==
  IF r.status = "network_error" THEN Problem("FMP Request Error")
  ELSE IF r.status = "http_error" THEN Problem("FMP HTTP Error")
  ELSE IF r.json = "invalid" THEN Problem("FMP General Error")
  ELSE IF r.historical = "records"
       THEN IF ~r.date_col THEN Problem("FMP General Error")
            ELSE IF r.close_col
                 THEN IF r.castable THEN Success(r.series)
                      ELSE Problem("FMP General Error")
                 ELSE Problem("FMP EOD: 'close' column not found.")
  ELSE IF r.error_message THEN Problem("FMP API Error")
  ELSE Problem("FMP EOD: No 'historical' data found or unexpected format")

\* A failed ticker is asked for again.
Retry(k, ok) == IF ok THEN k + 1 ELSE k

\* A failed ticker ends the loop.
BreakOnFailure(k, ok) == IF ok THEN k + 1 ELSE Len(tickers_tuple_for_cache)

\* enumerate: the next ticker, whatever became of this one.
NextIndex(k, ok) == k + 1

Strftime(d) == <<"%Y-%m-%d", d>>

CacheKey == <<tickers_tuple_for_cache, FMP_API_KEY,
              Strftime(start_date_input), Strftime(end_date_input)>>

FetchResult == <<_all_stock_close_prices, _successful_tickers, _problematic_items>>

TTL == 4

NeverExpires(entry) == TRUE

\* ttl="4h": an entry is served while it is younger than the TTL.
Alive(entry) == entry.age < TTL

CacheHit(c, key) == key \in DOMAIN c /\ Alive(c[key])

CacheStore(c, key, value) ==
  [k \in DOMAIN c \cup {key} |-> IF k = key THEN [value |-> value, age |-> 0] ELSE c[k]]

CacheKeep(c) == c

\* st.cache_data.clear()
CacheClear(c) == [k \in {} |-> 0]

\* An hour passes: every entry is an hour older (ages past the TTL are not told apart).
Aged(c) == [k \in DOMAIN c |-> [c[k] EXCEPT !.age = IF @ < TTL THEN @ + 1 ELSE @]]

\* if i > 0: time.sleep(0.25)
SleepDelay ==
  /\ pc = "loop_head"
  /\ i < Len(tickers_tuple_for_cache)
  /\ i > 0
  /\ http_log' = Append(http_log, [ev |-> "sleep"])
  /\ pc' = "loop_get"
  /\ UNCHANGED <<FMP_API_KEY, inputVars, parseVars, cache, i, _all_stock_close_prices,
                 _successful_tickers, _problematic_items, fetchVars, messages,
                 viewVars, computed, keys_seen>>

\* requests.get(url, timeout=20)
IssueRequest ==
  /\ \/ pc = "loop_head" /\ i = 0 /\ i < Len(tickers_tuple_for_cache)
     \/ pc = "loop_get"
  /\ http_log' = Append(http_log, [ev |-> "request", ticker |-> tickers_tuple_for_cache[i + 1]])
  /\ pc' = "awaiting"
  /\ UNCHANGED <<FMP_API_KEY, inputVars, parseVars, cache, i, _all_stock_close_prices,
                 _successful_tickers, _problematic_items, fetchVars, messages,
                 viewVars, computed, keys_seen>>

\* The request ends with r (a timeout is a network error); lines 70-90 record it.
HandleResponse(r) ==
  /\ pc = "awaiting"
  /\ LET ticker == tickers_tuple_for_cache[i + 1]
         o == Outcome(r)
     IN  /\ IF o.ok
            THEN /\ _all_stock_close_prices' =
                      [t \in DOMAIN _all_stock_close_prices \cup {ticker} |->
                         IF t = ticker THEN o.series ELSE _all_stock_close_prices[t]]
                 /\ _successful_tickers' = Append(_successful_tickers, ticker)
                 /\ UNCHANGED _problematic_items
            ELSE /\ _problematic_items' = Append(_problematic_items, <<ticker, o.reason>>)
                 /\ UNCHANGED <<_all_stock_close_prices, _successful_tickers>>
         /\ http_log' = Append(http_log, [ev |-> "recorded", ticker |-> ticker, response |-> r])
         /\ i' = NextIndex(i, o.ok)
         /\ pc' = "loop_head"
  /\ UNCHANGED <<FMP_API_KEY, inputVars, parseVars, cache, fetchVars, messages,
                 viewVars, computed, keys_seen>>

\* return: the decorator stores the value under the call's arguments and the
\* script unpacks it (line 144).
ReturnResult ==
  /\ pc = "loop_head"
  /\ i >= Len(tickers_tuple_for_cache)
  /\ cache' = CacheStore(cache, CacheKey, FetchResult)
  /\ computed' = CacheStore(computed, CacheKey, FetchResult)
  /\ all_fetched_prices' = _all_stock_close_prices
  /\ successful_all_fetches' = _successful_tickers
  /\ problematic_all_fetches' = _problematic_items
  /\ pc' = "display"
  /\ UNCHANGED <<FMP_API_KEY, inputVars, parseVars, loopVars, messages, viewVars,
                 keys_seen>>

(***************************************************************************)
(* Lines 25-37 and 94-152: the run of the script up to the fetch and the   *)
(* display of what the fetch reported.                                     *)
(***************************************************************************)
NoPrices == [t \in {} |-> EmptySeries]
NoAligned == [x \in {} |-> EmptySeries]

\* A (re)run of the script with the widgets as the user left them.  `from` is
\* the set of positions at which the previous run is left.
BeginRun(from, raw, start, end, bench, click) ==
  /\ pc \in from
  /\ raw_tickers_input' = raw
  /\ start_date_input' = start
  /\ end_date_input' = end
  /\ selected_benchmarks_for_overlay' = bench
  /\ clear_clicked' = click
  /\ user_tickers_list' = <<>>
  /\ tickers_tuple_for_cache' = <<>>
  /\ i' = 0
  /\ _all_stock_close_prices' = NoPrices
  /\ _successful_tickers' = <<>>
  /\ _problematic_items' = <<>>
  /\ http_log' = <<>>
  /\ all_fetched_prices' = NoPrices
  /\ successful_all_fetches' = <<>>
  /\ problematic_all_fetches' = <<>>
  /\ messages' = <<>>
  /\ custom_etf_df' = EmptyFrame
  /\ valid_custom_tickers_for_pw' = <<>>
  /\ chart_data_main_etf' = EmptyFrame
  /\ aligned_benchmark' = NoAligned
  /\ normalized_df' = EmptyFrame
  /\ pc' = "check_key"
  /\ UNCHANGED <<FMP_API_KEY, cache, computed>>

StartRun(from, raw, start, end, bench, click) ==
  /\ BeginRun(from, raw, start, end, bench, click)
  /\ UNCHANGED keys_seen

\* Lines 26-37.
CheckApiKey ==
  /\ pc = "check_key"
  /\ IF FMP_API_KEY = ""
     THEN /\ messages' = Append(messages, Stop("api_key_not_configured"))
          /\ pc' = "stopped"
     ELSE /\ pc' = "sidebar"
          /\ UNCHANGED messages
  /\ UNCHANGED <<FMP_API_KEY, inputVars, parseVars, cache, loopVars, fetchVars,
                 viewVars, computed, keys_seen>>

\* Lines 115-118: the button clears the cache and reruns the script, in which
\* the button reads as not pressed.
ClearCacheButton ==
  /\ pc = "sidebar"
  /\ IF clear_clicked
     THEN /\ cache' = CacheClear(cache)
          /\ computed' = [k \in {} |-> 0]
          /\ clear_clicked' = FALSE
          /\ pc' = "check_key"
     ELSE /\ pc' = "validate"
          /\ UNCHANGED <<cache, computed, clear_clicked>>
  /\ UNCHANGED <<FMP_API_KEY, raw_tickers_input, start_date_input, end_date_input,
                 selected_benchmarks_for_overlay, parseVars, loopVars, fetchVars,
                 messages, viewVars, keys_seen>>

\* set(t.strip().upper() for t in raw_tickers_input.split(',') if t.strip())
CleanTickers(raw) ==
  {Upper(Strip(Split(raw)[k])) : k \in {j \in DOMAIN Split(raw) : Strip(Split(raw)[j]) # <<>>}}

\* Only a start after the end is refused.
StartAfterEnd(start, end) == start > end

\* start_date_input >= end_date_input
StartNotBeforeEnd(start, end) == start >= end

MaxSpanDays == 2555

\* Lines 122-138.  list(set) lists the set in an order of its own; sorted fixes it.
ParseAndValidate ==
  /\ pc = "validate"
  /\ \E order \in Orderings(CleanTickers(raw_tickers_input)) :
       LET list == Sorted(order)
       IN  /\ user_tickers_list' = list
           /\ IF list = <<>>
              THEN /\ messages' = Append(messages, Stop("no_ticker_entered"))
                   /\ pc' = "stopped"
                   /\ UNCHANGED tickers_tuple_for_cache
              ELSE IF StartNotBeforeEnd(start_date_input, end_date_input)
              THEN /\ messages' = Append(messages, Stop("start_not_before_end"))
                   /\ pc' = "stopped"
                   /\ UNCHANGED tickers_tuple_for_cache
              ELSE /\ messages' = IF end_date_input - start_date_input > MaxSpanDays
                                  THEN Append(messages, Warning("range_over_7_years"))
                                  ELSE messages
                   /\ \E both \in Orderings(Range(list) \cup
                                            Range(selected_benchmarks_for_overlay)) :
                        tickers_tuple_for_cache' = Sorted(both)
                   /\ pc' = "call"
  /\ UNCHANGED <<FMP_API_KEY, inputVars, cache, loopVars, fetchVars, viewVars,
                 computed, keys_seen>>

\* Lines 141-146 through the decorator of line 51: a live entry under the
\* call's arguments is returned without running the function.
CallFetch ==
  /\ pc = "call"
  /\ IF tickers_tuple_for_cache = <<>>
     THEN /\ pc' = "display"
          /\ UNCHANGED <<cache, computed, loopVars, fetchVars>>
     ELSE IF CacheHit(cache, CacheKey)
     THEN /\ all_fetched_prices' = cache[CacheKey].value[1]
          /\ successful_all_fetches' = cache[CacheKey].value[2]
          /\ problematic_all_fetches' = cache[CacheKey].value[3]
          /\ pc' = "display"
          /\ UNCHANGED <<cache, computed, loopVars>>
     ELSE IF FMP_API_KEY = ""
     THEN LET value == <<NoPrices, <<>>,
                         <<<<<<"API_KEY_MISSING">>, "API Key missing in fetch function">>>> >>
          IN  /\ cache' = CacheStore(cache, CacheKey, value)
              /\ computed' = CacheStore(computed, CacheKey, value)
              /\ all_fetched_prices' = value[1]
              /\ successful_all_fetches' = value[2]
              /\ problematic_all_fetches' = value[3]
              /\ pc' = "display"
              /\ UNCHANGED loopVars
     ELSE /\ pc' = "loop_head"
          /\ UNCHANGED <<cache, computed, loopVars, fetchVars>>
  /\ UNCHANGED <<FMP_API_KEY, inputVars, parseVars, messages, viewVars, keys_seen>>

IssuesShownButLast(items) ==
  [k \in 1..(Len(items) - 1) |-> Issue(items[k][1], items[k][2])]

\* for ticker, error_msg in problematic_all_fetches: st.sidebar.warning(...)
IssuesShown(items) == [k \in DOMAIN items |-> Issue(items[k][1], items[k][2])]

\* Lines 148-152.
DisplayIssues ==
  /\ pc = "display"
  /\ messages' = messages \o IssuesShown(problematic_all_fetches)
  /\ pc' = "prepare"
  /\ UNCHANGED <<FMP_API_KEY, inputVars, parseVars, cache, loopVars, fetchVars,
                 viewVars, computed, keys_seen>>

RunEnded == {"idle", "done", "stopped"}

\* An hour passes between two runs.
Tick ==
  /\ pc \in RunEnded
  /\ cache' = Aged(cache)
  /\ computed' = Aged(computed)
  /\ UNCHANGED <<pc, FMP_API_KEY, inputVars, parseVars, loopVars, fetchVars, messages,
                 viewVars, keys_seen>>

(***************************************************************************)
(* Lines 154-174: the custom ETF's table and the price-weighted composite. *)
(***************************************************************************)
CustomEtfPrices ==
  LET ok == {t \in Range(user_tickers_list) :
               /\ t \in Range(successful_all_fetches)
               /\ t \in DOMAIN all_fetched_prices
               /\ ~IsEmptySeries(all_fetched_prices[t])}
  IN  [t \in ok |-> all_fetched_prices[t]]

PrepareCustomETF ==
  /\ pc = "prepare"
  /\ LET custom_etf_prices == CustomEtfPrices
         successful_custom_tickers == Filter(user_tickers_list, DOMAIN custom_etf_prices)
         df == DropNaAllRows(DataFrameOf(custom_etf_prices))
         valid == Filter(successful_custom_tickers,
                         {t \in DOMAIN df.cols : ~AllNull(df.cols[t])})
         summed == WithColumn(df, PortfolioSum, [d \in df.index |-> RowSum(df, valid, d)])
     IN  IF successful_custom_tickers = <<>>
         THEN /\ messages' = Append(messages, Stop("no_custom_ticker_fetched"))
              /\ pc' = "stopped"
              /\ UNCHANGED <<custom_etf_df, valid_custom_tickers_for_pw>>
         ELSE IF df.index = {}
         THEN /\ messages' = Append(messages, Stop("no_data_in_period"))
              /\ pc' = "stopped"
              /\ custom_etf_df' = df
              /\ UNCHANGED valid_custom_tickers_for_pw
         ELSE IF valid = <<>>
         THEN /\ messages' = Append(messages, Stop("no_valid_ticker_remaining"))
              /\ pc' = "stopped"
              /\ custom_etf_df' = df
              /\ valid_custom_tickers_for_pw' = valid
         ELSE /\ custom_etf_df' = WithColumn(summed, MyCustomETF, PriceWeighted(df, valid))
              /\ valid_custom_tickers_for_pw' = valid
              /\ pc' = "overlay"
              /\ UNCHANGED messages
  /\ UNCHANGED <<FMP_API_KEY, inputVars, parseVars, cache, loopVars, fetchVars,
                 chart_data_main_etf, aligned_benchmark, normalized_df, computed,
                 keys_seen>>

(***************************************************************************)
(* Lines 180-206: the main chart, the composite and the benchmarks on it.  *)
(***************************************************************************)
BenchmarkUsable(b) ==
  /\ b \in Range(successful_all_fetches)
  /\ b \in DOMAIN all_fetched_prices
  /\ ~IsEmptySeries(all_fetched_prices[b])

\* The loop over selected_benchmarks_for_overlay: st is [chart, aligned, msgs].
RECURSIVE OverlayLoop(_, _)
OverlayLoop(benchs, st) ==
  IF benchs = <<>> THEN st
  ELSE LET b == Head(benchs)
       IN  IF BenchmarkUsable(b)
           THEN LET a == AlignRight(all_fetched_prices[b], st.chart.cols[MyCustomETF])
                IN  OverlayLoop(Tail(benchs),
                      [st EXCEPT !.chart = Assign(@, BenchColumn(b), a),
                                 !.aligned = [x \in DOMAIN @ \cup {b} |->
                                                IF x = b THEN a ELSE @[x]]])
           ELSE OverlayLoop(Tail(benchs),
                      [st EXCEPT !.msgs = Append(@, Warning(<<"benchmark_not_fetched", b>>))])

OverlayBenchmarks ==
  /\ pc = "overlay"
  /\ LET has == /\ MyCustomETF \in DOMAIN custom_etf_df.cols
                /\ ~AllNull(custom_etf_df.cols[MyCustomETF])
         chart0 == IF has THEN Assign(EmptyFrame, MyCustomETF, custom_etf_df.cols[MyCustomETF])
                   ELSE EmptyFrame
         msgs0 == IF has THEN messages
                  ELSE Append(messages, Warning("etf_not_calculated"))
         \* chart_data_main_etf['My Custom ETF'] raises KeyError without the column
         crash == ~has /\ \E k \in DOMAIN selected_benchmarks_for_overlay :
                             BenchmarkUsable(selected_benchmarks_for_overlay[k])
         st == OverlayLoop(selected_benchmarks_for_overlay,
                           [chart |-> chart0, aligned |-> [x \in {} |-> EmptySeries],
                            msgs |-> msgs0])
     IN  IF crash
         THEN /\ pc' = "crashed"
              /\ messages' = msgs0
              /\ chart_data_main_etf' = chart0
              /\ UNCHANGED aligned_benchmark
         ELSE /\ pc' = "normalize"
              /\ chart_data_main_etf' = st.chart
              /\ aligned_benchmark' = st.aligned
              /\ messages' = IF st.chart.index = {} \/ DOMAIN st.chart.cols = {}
                              THEN Append(st.msgs, Warning("not_enough_data_for_chart"))
                              ELSE st.msgs
  /\ UNCHANGED <<FMP_API_KEY, inputVars, parseVars, cache, loopVars, fetchVars,
                 custom_etf_df, valid_custom_tickers_for_pw, normalized_df, computed,
                 keys_seen>>

(***************************************************************************)
(* Lines 214-261: every series rebased to 100 at its first valid value.    *)
(***************************************************************************)
DataToNormalize ==
  LET cons == {t \in Range(valid_custom_tickers_for_pw) :
                 t \in DOMAIN custom_etf_df.cols /\ ~IsEmptySeries(custom_etf_df.cols[t])}
      charted == {c \in {MyCustomETF} \cup
                         {BenchColumn(b) : b \in Range(selected_benchmarks_for_overlay)} :
                    /\ c \in DOMAIN chart_data_main_etf.cols
                    /\ ~IsEmptySeries(chart_data_main_etf.cols[c])
                    /\ ~AllNull(chart_data_main_etf.cols[c])}
  IN  [c \in cons \cup charted |->
         IF c \in cons THEN custom_etf_df.cols[c] ELSE chart_data_main_etf.cols[c]]

NormalizeFrame(comparison_df_norm) ==
  [index |-> comparison_df_norm.index,
   cols |-> [c \in DOMAIN comparison_df_norm.cols |->
               NormalizeColumn(comparison_df_norm.cols[c])]]

Normalize ==
  /\ pc = "normalize"
  /\ LET data_to_normalize_list == DataToNormalize
         comparison_df_norm == DropNaAllRows(DataFrameOf(data_to_normalize_list))
     IN  IF DOMAIN data_to_normalize_list = {}
         THEN /\ messages' = Append(messages, Warning("no_data_for_normalized_chart"))
              /\ UNCHANGED normalized_df
         ELSE IF comparison_df_norm.index = {}
         THEN /\ messages' = Append(messages, Warning("not_enough_overlapping_data"))
              /\ UNCHANGED normalized_df
         ELSE /\ normalized_df' = NormalizeFrame(comparison_df_norm)
              /\ UNCHANGED messages
  /\ pc' = "done"
  /\ UNCHANGED <<FMP_API_KEY, inputVars, parseVars, cache, loopVars, fetchVars,
                 custom_etf_df, valid_custom_tickers_for_pw, chart_data_main_etf,
                 aligned_benchmark, computed, keys_seen>>

(***************************************************************************)
(* SpecData: the part of the script after the fetch, from every fetch      *)
(* result over a small universe of series.                                 *)
(***************************************************************************)
SeriesOver(cells) == UNION {[I -> cells] : I \in SUBSET Dates \ {{}}}

CustomCells == {NaN, Num(0), Num(1)}
BenchCells == {Num(2)}

\* A ticker's fetch: its series, or the empty series standing for a failure.
FetchOutcomes(cells) == SeriesOver(cells) \cup {EmptySeries}

FetchedOver(tickers, prices) ==
  /\ all_fetched_prices = prices
  /\ successful_all_fetches = Filter(tickers, DOMAIN prices)
  /\ problematic_all_fetches =
       [k \in 1..Len(Filter(tickers, Range(tickers) \ DOMAIN prices)) |->
          <<Filter(tickers, Range(tickers) \ DOMAIN prices)[k], "FMP_HTTP_Error">>]

NoKey == [reached |-> FALSE, tickers |-> {}, benchmarks |-> {}, key |-> <<>>]

Blank ==
  /\ cache = [k \in {} |-> 0]
  /\ i = 0
  /\ _all_stock_close_prices = [t \in {} |-> EmptySeries]
  /\ _successful_tickers = <<>>
  /\ _problematic_items = <<>>
  /\ http_log = <<>>
  /\ messages = <<>>
  /\ custom_etf_df = EmptyFrame
  /\ valid_custom_tickers_for_pw = <<>>
  /\ chart_data_main_etf = EmptyFrame
  /\ aligned_benchmark = [x \in {} |-> EmptySeries]
  /\ normalized_df = EmptyFrame
  /\ computed = [k \in {} |-> 0]
  /\ keys_seen = NoKey

InitData ==
  /\ Blank
  /\ pc = "prepare"
  /\ FMP_API_KEY = "key"
  /\ raw_tickers_input = <<>>
  /\ start_date_input = 1
  /\ end_date_input = MaxDate
  /\ clear_clicked = FALSE
  /\ user_tickers_list = <<AAA, BBB>>
  /\ selected_benchmarks_for_overlay = <<VOO>>
  /\ tickers_tuple_for_cache = <<AAA, BBB, VOO>>
  /\ \E pa \in FetchOutcomes(CustomCells), pb \in FetchOutcomes(CustomCells),
          pv \in FetchOutcomes(BenchCells) :
       LET got == [t \in {AAA, BBB, VOO} |->
                     IF t = AAA THEN pa ELSE IF t = BBB THEN pb ELSE pv]
           S == {t \in {AAA, BBB, VOO} : ~IsEmptySeries(got[t])}
       IN  FetchedOver(tickers_tuple_for_cache, [t \in S |-> got[t]])

NextData == PrepareCustomETF \/ OverlayBenchmarks \/ Normalize

SpecData == InitData /\ [][NextData]_vars

(***************************************************************************)
(* Properties of the composite, the overlay and the normalization,         *)
(* stated against the fetched data.                                        *)
(***************************************************************************)
SameFloat(x, y) == (IsNaN(x) /\ IsNaN(y)) \/ FEq(x, y)

\* The fetched value of ticker t at date d, missing when the series has no such date.
ValueAt(t, d) ==
  IF d \in DOMAIN all_fetched_prices[t] THEN all_fetched_prices[t][d] ELSE NaN

HasData(t) ==
  /\ t \in DOMAIN all_fetched_prices
  /\ \E d \in DOMAIN all_fetched_prices[t] : ~IsNaN(all_fetched_prices[t][d])

\* The user's tickers that contribute at least one price.
Constituents == {t \in Range(user_tickers_list) : HasData(t)}

SurvivingDates == {d \in Dates : \E t \in Constituents : ~IsNaN(ValueAt(t, d))}

RECURSIVE SumNonMissing(_, _)
SumNonMissing(T, d) ==
  IF T = {} THEN 0
  ELSE LET t == CHOOSE x \in T : TRUE
       IN  (IF IsNaN(ValueAt(t, d)) THEN 0 ELSE ValueAt(t, d).n) + SumNonMissing(T \ {t}, d)

CompositeProduced == MyCustomETF \in DOMAIN custom_etf_df.cols

ExamplePrices ==
  [t \in {AAA, BBB} |->
     IF t = AAA THEN [d \in {1, 2} |-> IF d = 1 THEN Num(10) ELSE Num(20)]
     ELSE [d \in {1, 2} |-> Num(30)]]

ExampleComposite ==
  PriceWeighted(DropNaAllRows(DataFrameOf(ExamplePrices)), <<AAA, BBB>>)

\* C2: at every surviving date the composite is the sum of the constituents'
\* non-missing prices divided by the number of constituents (not by the number
\* of prices present at that date); closes AAA [10,20] and BBB [30,30] give
\* [20, 25].
C2_CompositeIsSumOverCount ==
  /\ DOMAIN ExampleComposite = {1, 2}
  /\ FEq(ExampleComposite[1], Num(20))
  /\ FEq(ExampleComposite[2], Num(25))
  /\ CompositeProduced =>
       /\ Range(valid_custom_tickers_for_pw) = Constituents
       /\ custom_etf_df.index = SurvivingDates
       /\ \A d \in custom_etf_df.index :
            FEq(custom_etf_df.cols[MyCustomETF][d],
                [n |-> SumNonMissing(Constituents, d), d |-> Cardinality(Constituents)])

\* Two constituents, and a date at which one of them is missing and the other
\* has a positive price.
C2_Witness ==
  /\ CompositeProduced
  /\ Cardinality(Constituents) = 2
  /\ \E d \in custom_etf_df.index :
       /\ \E t \in Constituents : IsNaN(ValueAt(t, d))
       /\ SumNonMissing(Constituents, d) > 0

HasStopped(id) == \E k \in DOMAIN messages : messages[k] = Stop(id)

\* C10: the composite is produced exactly when some custom ticker contributes a
\* price; otherwise the run stops with a message and no composite.  Where the
\* composite is produced its divisor is at least 1, the table has a date, no date
\* of it is missing in every constituent, and the stop for "no valid custom
\* tickers remaining" never fires.
C10_CompositeOnlyFromNonEmptyInput ==
  /\ ~HasStopped("no_valid_ticker_remaining")
  /\ CompositeProduced =>
       /\ Len(valid_custom_tickers_for_pw) >= 1
       /\ custom_etf_df.index # {}
       /\ \A d \in custom_etf_df.index :
            \E t \in Range(valid_custom_tickers_for_pw) : ~IsNaN(custom_etf_df.cols[t][d])
       /\ Constituents # {}
  /\ (pc # "prepare" /\ Constituents = {}) =>
       /\ pc = "stopped"
       /\ ~CompositeProduced
       /\ IF \E t \in Range(user_tickers_list) : t \in DOMAIN all_fetched_prices
          THEN HasStopped("no_data_in_period")
          ELSE HasStopped("no_custom_ticker_fetched")
  /\ (pc # "prepare" /\ Constituents # {}) => CompositeProduced /\ pc # "stopped"

\* The composite is computed although one fetched custom ticker has no price at all.
C10_Witness ==
  /\ CompositeProduced
  /\ \E t \in Range(user_tickers_list) : t \in DOMAIN all_fetched_prices /\ ~HasData(t)

\* A run that stops because every fetched custom series is missing throughout.
C10_WitnessStop == pc = "stopped" /\ HasStopped("no_data_in_period")

Overlaid(b) == b \in Range(selected_benchmarks_for_overlay) /\ BenchmarkUsable(b)

\* C8: a fetched benchmark is put on the chart on exactly the composite's dates:
\* its own value where it has the date, missing where it has not, and none of
\* the dates only it has.
C8_BenchmarkOnCompositeDates ==
  pc \in {"normalize", "done"} =>
    \A b \in BENCHMARK_ETFS :
      Overlaid(b) =>
        /\ b \in DOMAIN aligned_benchmark
        /\ DOMAIN aligned_benchmark[b] = DOMAIN custom_etf_df.cols[MyCustomETF]
        /\ BenchColumn(b) \in DOMAIN chart_data_main_etf.cols
        /\ chart_data_main_etf.index = custom_etf_df.index
        /\ \A d \in custom_etf_df.index :
             /\ aligned_benchmark[b][d] = ValueAt(b, d)
             /\ chart_data_main_etf.cols[BenchColumn(b)][d] = ValueAt(b, d)

\* The benchmark has a date the composite lacks and lacks a date the composite has.
C8_Witness ==
  /\ pc = "normalize"
  /\ Overlaid(VOO)
  /\ DOMAIN all_fetched_prices[VOO] \ custom_etf_df.index # {}
  /\ custom_etf_df.index \ DOMAIN all_fetched_prices[VOO] # {}

\* The series handed to the normalization under column c, on the output's dates.
SourceOf(c) == [d \in normalized_df.index |-> DataToNormalize[c][d]]

HasValid(s) == \E d \in DOMAIN s : ~IsNaN(s[d])
FirstValidDate(s) == Min({d \in DOMAIN s : ~IsNaN(s[d])})

\* C7: a series whose first valid value is 0 comes out missing throughout, and
\* every other series of the same pass comes out as value / base * 100 on the
\* same dates, 100 at its first valid date.
C7_ZeroBaseGivesMissing ==
  (pc = "done" /\ DOMAIN normalized_df.cols # {}) =>
    /\ DOMAIN normalized_df.cols = DOMAIN DataToNormalize
    /\ \A c \in DOMAIN normalized_df.cols :
         LET s == SourceOf(c)
             out == normalized_df.cols[c]
         IN  /\ DOMAIN out = normalized_df.index
             /\ IF HasValid(s) /\ ~IsZero(s[FirstValidDate(s)])
                THEN /\ FEq(out[FirstValidDate(s)], Num(100))
                     /\ \A d \in DOMAIN s :
                          SameFloat(out[d], FRebase(s[d], s[FirstValidDate(s)]))
                ELSE AllNull(out)

\* One series starts at 0 and another, in the same pass, starts at a later date
\* than the table does.
C7_Witness ==
  /\ pc = "done"
  /\ DOMAIN normalized_df.cols # {}
  /\ \E c \in DOMAIN normalized_df.cols :
       HasValid(SourceOf(c)) /\ IsZero(SourceOf(c)[FirstValidDate(SourceOf(c))])
  /\ \E c \in DOMAIN normalized_df.cols :
       /\ HasValid(SourceOf(c))
       /\ ~IsZero(SourceOf(c)[FirstValidDate(SourceOf(c))])
       /\ FirstValidDate(SourceOf(c)) # Min(normalized_df.index)

(***************************************************************************)
(* SpecFetch: one uncached invocation of fetch_fmp_daily_prices, for every *)
(* tuple of distinct tickers and every response per ticker.                *)
(***************************************************************************)
SampleSeries ==
  {[d \in {1} |-> Num(1)], [d \in {1, 2} |-> IF d = 1 THEN NaN ELSE Num(2)]}

Responses ==
  {NetworkError, HttpError, Unparsable,
   Body("absent", FALSE, FALSE, FALSE, FALSE, EmptySeries),
   Body("absent", TRUE, FALSE, FALSE, FALSE, EmptySeries),
   Body("empty", FALSE, FALSE, FALSE, FALSE, EmptySeries),
   Body("records", FALSE, FALSE, TRUE, TRUE, EmptySeries),
   Body("records", FALSE, TRUE, FALSE, FALSE, EmptySeries),
   Body("records", FALSE, TRUE, TRUE, FALSE, EmptySeries)}
  \cup {Body("records", em, TRUE, TRUE, TRUE, s) : em \in BOOLEAN, s \in SampleSeries}

TickerTuples == UNION {Orderings(S) : S \in SUBSET {AAA, BBB, VOO}}

InitFetch ==
  /\ Blank
  /\ pc = "loop_head"
  /\ FMP_API_KEY = "key"
  /\ raw_tickers_input = <<>>
  /\ start_date_input = 1
  /\ end_date_input = 2
  /\ clear_clicked = FALSE
  /\ user_tickers_list = <<>>
  /\ selected_benchmarks_for_overlay = <<>>
  /\ tickers_tuple_for_cache \in TickerTuples
  /\ all_fetched_prices = [t \in {} |-> EmptySeries]
  /\ successful_all_fetches = <<>>
  /\ problematic_all_fetches = <<>>

NextFetch ==
  \/ SleepDelay
  \/ IssueRequest
  \/ \E r \in Responses : HandleResponse(r)
  \/ ReturnResult

SpecFetch == InitFetch /\ [][NextFetch]_vars

\* The tickers of the requests issued so far, in order.
RECURSIVE Requested(_)
Requested(log) ==
  IF log = <<>> THEN <<>>
  ELSE IF Head(log).ev = "request" THEN <<Head(log).ticker>> \o Requested(Tail(log))
  ELSE Requested(Tail(log))

\* The response ticker t's request ended with.
ResponseOf(t) ==
  LET k == CHOOSE k \in DOMAIN http_log : http_log[k].ev = "recorded" /\ http_log[k].ticker = t
  IN  http_log[k].response

\* The one outcome the claim calls success: a 2xx answer whose body parses and
\* holds historical records with a date and a close that converts to float.
Succeeded(r) ==
  /\ r.status = "ok"
  /\ r.json = "object"
  /\ r.historical = "records"
  /\ r.date_col /\ r.close_col /\ r.castable

Occurrences(t) ==
  Cardinality({k \in DOMAIN _successful_tickers : _successful_tickers[k] = t})
  + Cardinality({k \in DOMAIN _problematic_items : _problematic_items[k][1] = t})

\* C1: when the invocation returns, every ticker of the tuple has been requested
\* and appears exactly once across the successful and the problematic list: a
\* ticker whose request failed (network error, non-2xx, unparsable body, body
\* without usable historical data, with or without an error message, records
\* without date or close) only in the problematic list with a non-empty reason,
\* a ticker that succeeded only in the successful list with its series in the
\* price map.  A body with usable records counts as a success also when it
\* carries an error-message field: the code looks at that field only when
\* there are no records.
C1_EveryTickerAccountedFor ==
  /\ pc \in {"loop_head", "loop_get", "awaiting"} /\ i < Len(tickers_tuple_for_cache)
       => ENABLED NextFetch
  /\ (pc = "display" /\ tickers_tuple_for_cache # <<>>) =>
       /\ Requested(http_log) = tickers_tuple_for_cache
       /\ \A k \in DOMAIN tickers_tuple_for_cache :
            LET t == tickers_tuple_for_cache[k]
                r == ResponseOf(t)
            IN  /\ Occurrences(t) = 1
                /\ IF Succeeded(r)
                   THEN /\ t \in Range(successful_all_fetches)
                        /\ t \in DOMAIN all_fetched_prices
                        /\ all_fetched_prices[t] = r.series
                   ELSE /\ t \notin Range(successful_all_fetches)
                        /\ t \notin DOMAIN all_fetched_prices
                        /\ \E j \in DOMAIN problematic_all_fetches :
                             /\ problematic_all_fetches[j][1] = t
                             /\ problematic_all_fetches[j][2] # ""
       /\ Range(successful_all_fetches) \cup
            {problematic_all_fetches[j][1] : j \in DOMAIN problematic_all_fetches}
            = Range(tickers_tuple_for_cache)
       /\ successful_all_fetches = _successful_tickers
       /\ problematic_all_fetches = _problematic_items

\* The first ticker failed, the second one succeeded after it, the third failed.
C1_Witness ==
  /\ pc = "display"
  /\ Len(tickers_tuple_for_cache) = 3
  /\ ~Succeeded(ResponseOf(tickers_tuple_for_cache[1]))
  /\ Succeeded(ResponseOf(tickers_tuple_for_cache[2]))
  /\ ResponseOf(tickers_tuple_for_cache[3]) = NetworkError

\* C9: the log of an invocation is request, recorded, sleep, request, recorded,
\* sleep, ...: the requests are the tuple's tickers in order, one each; every
\* request but the first comes right after the delay, which comes right after
\* the previous ticker's outcome was recorded; no ticker is requested twice.
C9_SequentialNoRetry ==
  /\ \E n \in 0..Len(tickers_tuple_for_cache) :
       Requested(http_log) = SubSeq(tickers_tuple_for_cache, 1, n)
  /\ \A k \in DOMAIN http_log :
       http_log[k].ev = "request" =>
         \/ k = 1
         \/ /\ k >= 3
            /\ http_log[k - 1].ev = "sleep"
            /\ http_log[k - 2].ev = "recorded"
            /\ http_log[k - 2].ticker = Requested(SubSeq(http_log, 1, k - 1))
                                          [Len(Requested(SubSeq(http_log, 1, k - 1)))]
  /\ \A k \in DOMAIN http_log :
       http_log[k].ev = "recorded" =>
         k > 1 /\ http_log[k - 1] = [ev |-> "request", ticker |-> http_log[k].ticker]
  /\ (pc = "display" /\ http_log # <<>>) =>
       /\ Requested(http_log) = tickers_tuple_for_cache
       /\ Len(http_log) = 3 * Len(tickers_tuple_for_cache) - 1

\* An invocation over three tickers returned although the first two requests failed.
C9_Witness ==
  /\ pc = "display"
  /\ Len(tickers_tuple_for_cache) = 3
  /\ ResponseOf(tickers_tuple_for_cache[1]) = NetworkError
  /\ ResponseOf(tickers_tuple_for_cache[2]) = HttpError

(***************************************************************************)
(* Spec: runs of the whole script, one after the other, over a small set   *)
(* of widget states and responses.                                         *)
(***************************************************************************)
RawChoices == {<<" ", ",">>, <<" ", "a", "a", "a", ",", "A", "A", "A">>}
DateChoices == {<<1, 2>>, <<2, 2>>}
BenchChoices == {<<>>, <<VOO>>}

CoarseResponses ==
  {HttpError,
   Body("records", FALSE, TRUE, TRUE, TRUE, [d \in {1} |-> Num(1)]),
   Body("records", FALSE, TRUE, TRUE, TRUE, [d \in {1} |-> NaN])}

Init ==
  /\ Blank
  /\ pc = "idle"
  /\ FMP_API_KEY \in {"", "key"}
  /\ raw_tickers_input = <<>>
  /\ start_date_input = 1
  /\ end_date_input = 2
  /\ clear_clicked = FALSE
  /\ user_tickers_list = <<>>
  /\ selected_benchmarks_for_overlay = <<>>
  /\ tickers_tuple_for_cache = <<>>
  /\ all_fetched_prices = NoPrices
  /\ successful_all_fetches = <<>>
  /\ problematic_all_fetches = <<>>

Next ==
  \/ \E raw \in RawChoices, dates \in DateChoices, bench \in BenchChoices,
        click \in BOOLEAN :
       StartRun(RunEnded, raw, dates[1], dates[2], bench, click)
  \/ CheckApiKey
  \/ ClearCacheButton
  \/ ParseAndValidate
  \/ CallFetch
  \/ SleepDelay
  \/ IssueRequest
  \/ \E r \in CoarseResponses : HandleResponse(r)
  \/ ReturnResult
  \/ DisplayIssues
  \/ PrepareCustomETF
  \/ OverlayBenchmarks
  \/ Normalize
  \/ Tick

Spec == Init /\ [][Next]_vars

\* The key was computed by an invocation under an hour count below the TTL
\* ago, and the cache has not been cleared since.
Fresh(key) == key \in DOMAIN computed /\ computed[key].age < TTL

\* C3: a call whose key was computed less than the TTL ago, with no clear since,
\* returns that computation's result (failures included) and issues no request;
\* any other call runs the function, which requests every ticker again before
\* it returns and stores the new result.
C3_CacheServesWithinTTL ==
  [][/\ (pc = "call" /\ pc' # "call") =>
          IF Fresh(CacheKey)
          THEN /\ pc' = "display"
               /\ http_log' = <<>>
               /\ <<all_fetched_prices', successful_all_fetches',
                    problematic_all_fetches'>> = computed[CacheKey].value
          ELSE /\ pc' = "loop_head"
               /\ http_log' = <<>>
               /\ i' = 0
     /\ (pc = "loop_head" /\ pc' = "display") =>
          /\ Requested(http_log') = tickers_tuple_for_cache
          /\ computed'[CacheKey].age = 0
          /\ computed'[CacheKey].value =
               <<all_fetched_prices', successful_all_fetches', problematic_all_fetches'>>
    ]_vars

\* A result with a recorded failure is served from the cache hours after it
\* was computed.
C3_Witness ==
  /\ pc = "display"
  /\ http_log = <<>>
  /\ problematic_all_fetches # <<>>
  /\ successful_all_fetches # <<>>
  /\ Fresh(CacheKey)
  /\ computed[CacheKey].age >= 2

\* The function runs again for a key whose entry is as old as the TTL.
C3_WitnessExpired ==
  /\ pc = "awaiting"
  /\ CacheKey \in DOMAIN computed
  /\ computed[CacheKey].age = TTL

\* The function runs again for a key computed before the cache was cleared.
C3_WitnessCleared ==
  /\ pc = "awaiting"
  /\ CacheKey \notin DOMAIN computed
  /\ \E k \in DOMAIN computed : k # CacheKey

FetchCalled ==
  pc \in {"loop_head", "loop_get", "awaiting", "display", "prepare", "overlay",
          "normalize", "done"}

\* C4: a request is issued, and the fetcher is called, only with the credential
\* present, a non-empty cleaned ticker list and start < end; without the
\* credential the run halts at once, and an empty list or start >= end ends
\* the run with a message before the call.
C4_NoFetchWithoutValidInput ==
  /\ (Requested(http_log) # <<>> \/ FetchCalled \/ pc = "call") =>
       /\ FMP_API_KEY # ""
       /\ CleanTickers(raw_tickers_input) # {}
       /\ start_date_input < end_date_input
  /\ FMP_API_KEY = "" =>
       /\ pc \in {"idle", "check_key", "stopped"}
       /\ pc = "stopped" => messages = <<Stop("api_key_not_configured")>>
       /\ DOMAIN cache = {}
  /\ (pc = "stopped" /\ FMP_API_KEY # "" /\ CleanTickers(raw_tickers_input) = {}) =>
       /\ messages = <<Stop("no_ticker_entered")>>
       /\ http_log = <<>>
  /\ (pc = "stopped" /\ FMP_API_KEY # "" /\ CleanTickers(raw_tickers_input) # {}
        /\ start_date_input >= end_date_input) =>
       /\ messages = <<Stop("start_not_before_end")>>
       /\ http_log = <<>>
  /\ (pc \notin {"idle", "check_key", "sidebar", "validate"} /\ FMP_API_KEY # ""
        /\ (CleanTickers(raw_tickers_input) = {} \/ start_date_input >= end_date_input))
       => pc = "stopped"

\* A run with tickers entered and the start date equal to the end date was
\* refused, with an earlier run's result still in the cache.
C4_Witness ==
  /\ pc = "stopped"
  /\ FMP_API_KEY # ""
  /\ CleanTickers(raw_tickers_input) # {}
  /\ start_date_input = end_date_input
  /\ messages = <<Stop("start_not_before_end")>>
  /\ DOMAIN cache # {}

AfterDisplay == pc \in {"prepare", "overlay", "normalize", "done", "stopped", "crashed"}

IssuesIn(msgs) ==
  LET RECURSIVE Pick(_)
      Pick(m) == IF m = <<>> THEN <<>>
                 ELSE IF Head(m).kind = "issue"
                      THEN <<<<Head(m).ticker, Head(m).reason>>>> \o Pick(Tail(m))
                      ELSE Pick(Tail(m))
  IN  Pick(msgs)

\* C6: from the display step on, the issues shown are exactly the entries of the
\* problematic list, in its order, and each stands before any stop message of
\* the run.
C6_FailuresAlwaysShown ==
  AfterDisplay =>
    /\ IssuesIn(messages) = problematic_all_fetches
    /\ \A k \in DOMAIN messages, m \in DOMAIN messages :
         (messages[k].kind = "issue" /\ messages[m].kind = "stop") => k < m

\* Every custom ticker failed: the failures are on the page and the view is abandoned.
C6_Witness ==
  /\ pc = "stopped"
  /\ HasStopped("no_custom_ticker_fetched")
  /\ Len(problematic_all_fetches) = 2

\* The benchmark failed and the custom ETF was still built.
C6_WitnessPartial ==
  /\ pc = "done"
  /\ problematic_all_fetches # <<>>
  /\ CompositeProduced

(***************************************************************************)
(* SpecKey: two runs after one another up to the call of the fetcher, over *)
(* every text of the ticker box up to MaxRawLen characters; keys_seen      *)
(* keeps the previous run's ticker set, benchmarks and cache key.          *)
(***************************************************************************)
RawAlphabet == {"a", "B", " ", ","}

\* The first run that gets to the call is remembered, and one run follows it.
StartRunObserved(from, raw, start, end, bench, click) ==
  /\ ~keys_seen.reached
  /\ BeginRun(from, raw, start, end, bench, click)
  /\ keys_seen' = IF pc = "call"
                  THEN [reached |-> TRUE,
                        tickers |-> CleanTickers(raw_tickers_input),
                        benchmarks |-> Range(selected_benchmarks_for_overlay),
                        key |-> CacheKey]
                  ELSE NoKey

InitKey ==
  /\ Init
  /\ FMP_API_KEY = "key"

NextKey ==
  \/ \E raw \in SeqsUpTo(RawAlphabet, MaxRawLen), bench \in BenchChoices :
       StartRunObserved({"idle", "stopped", "call"}, raw, 1, 2, bench, FALSE)
  \/ CheckApiKey
  \/ ClearCacheButton
  \/ ParseAndValidate

SpecKey == InitKey /\ [][NextKey]_vars

SameRequest ==
  /\ pc = "call"
  /\ keys_seen.reached
  /\ keys_seen.tickers = CleanTickers(raw_tickers_input)
  /\ keys_seen.benchmarks = Range(selected_benchmarks_for_overlay)

\* C5: a run whose ticker text denotes the same set of symbols as the previous
\* run's, with the same benchmarks, credential and dates, calls the fetcher with
\* the same arguments, whatever the order, case, spacing and repetitions in the
\* text.
C5_SameSetSameKey ==
  SameRequest =>
    /\ keys_seen.key = CacheKey
    /\ keys_seen.key[1] = tickers_tuple_for_cache

\* The same request again, this time typed with the larger symbol first.
C5_Witness ==
  /\ SameRequest
  /\ Len(user_tickers_list) = 2
  /\ raw_tickers_input = <<"B", ",", "a">>

====
